---- MODULE Spec2Model ----
(***************************************************************************)
(* tdom/conditional.py: the Conditions builder (when / default /          *)
(* __html__), the stateless cond function, and the value-to-markup         *)
(* conversion _to_markup they rest on.                                     *)
(*                                                                         *)
(* Python values are records tagged by "kind".  Text is a sequence of      *)
(* one-character strings, so that escaping is a real rewriting of the      *)
(* text.  An exception raised by a deferred computation is the outcome     *)
(* record of kind "exc": the source has no try/except, so every caller     *)
(* passes it on unchanged.                                                 *)
(***************************************************************************)
EXTENDS Naturals, Sequences, FiniteSets

VARIABLES
    cases,      \* Conditions._cases: sequence of [cond, val]
    default,    \* Conditions._default: a value, or the sentinel _UNSET
    call,       \* the call made last on the instance, with its arguments
    lastDefault,\* the argument of the most recent default() call, NoCall if none
    r_res,      \* what _resolve() gave since the last when/default, or NoCall
    r_html,     \* what __html__() gave since the last when/default, or NoCall
    r_cond,     \* what cond(*cases, default=default) gave, or NoCall
    hookRuns,   \* number of __html__() calls since the last when/default
    nres,       \* number of resolutions run so far
    ncalls      \* number of deferred computations invoked so far

vars == <<cases, default, call, lastDefault, r_res, r_html, r_cond, hookRuns, nres, ncalls>>

\* ------------------------------------------------------------------ bounds
MaxCases == 2
MaxResolutions == 2

\* ------------------------------------------------------------------ values
\* The sentinel of conditional.py: distinct from every value, None and False
\* included.
_UNSET == [kind |-> "unset"]

None == [kind |-> "none"]
False == [kind |-> "bool", b |-> FALSE]
Str(s) == [kind |-> "str", s |-> s]
\* markupsafe.Markup: text already trusted.
Markup(s) == [kind |-> "markup", s |-> s]
\* An object that is not text and has an __html__ method returning h
\* (a rendered node, a nested Conditions).
Node(h) == [kind |-> "node", html |-> h]
\* A zero-argument callable: invoking it returns ret, or raises.
Thunk(id, raises, ret) == [kind |-> "thunk", id |-> id, raises |-> raises, ret |-> ret]
\* The outcome of a call that raised: the exception of thunk id.
Raised(id) == [kind |-> "exc", id |-> id]

Hot == <<"<", "&", ">", "\"", "'", "b">>
Tag == <<"<", "i", ">">>

Data == {None, False, Str(Hot), Markup(Hot), Node(Tag)}
Thunks == {Thunk(1, FALSE, Str(Hot)), Thunk(2, TRUE, None), Thunk(3, FALSE, Node(Tag))}
Values == Data \cup Thunks

\* No call made yet (since the last mutation of the builder).
NoCall == [kind |-> "nocall"]

\* --------------------------------------------------------------- functions
callable(val) == val.kind = "thunk"

\* val(): the call of a deferred computation.
Invoke(val) == IF val.raises THEN Raised(val.id) ELSE val.ret

\* _resolve_value: out is what it returns (or the exception), called lists
\* the deferred computations it invoked.
_resolve_value(val) ==
    IF callable(val)
    THEN [out |-> Invoke(val), called |-> <<val.id>>]
    ELSE [out |-> val, called |-> <<>>]

\* The invocations of r, tagged with the position the scan stood at:
\* branch number 1.., or 0 for the default.
At(slot, r) ==
    [out |-> r.out,
     log |-> [k \in 1..Len(r.called) |-> [slot |-> slot, id |-> r.called[k]]]]

\* Variant: the value of every branch is resolved before its condition is read.
RECURSIVE ResolveFrom_eager(_, _, _)
ResolveFrom_eager(cs, d, i) ==
    IF i <= Len(cs)
    THEN LET here == At(i, _resolve_value(cs[i].val)) IN
         IF cs[i].cond
         THEN here
         ELSE LET rest == ResolveFrom_eager(cs, d, i + 1) IN
              [out |-> rest.out, log |-> here.log \o rest.log]
    ELSE IF d # _UNSET
         THEN At(0, _resolve_value(d))
         ELSE [out |-> None, log |-> <<>>]

RECURSIVE ResolveFrom(_, _, _)
ResolveFrom(cs, d, i) ==
    IF i <= Len(cs)
    THEN IF cs[i].cond
         THEN At(i, _resolve_value(cs[i].val))
         ELSE ResolveFrom(cs, d, i + 1)
    ELSE IF d # _UNSET
         THEN At(0, _resolve_value(d))
         ELSE [out |-> None, log |-> <<>>]

\* Variant: the scan keeps going and the last truthy branch wins.
_resolve_lastwins(cs, d) ==
    LET T == {i \in 1..Len(cs) : cs[i].cond} IN
    IF T = {}
    THEN ResolveFrom(cs, d, Len(cs) + 1)
    ELSE LET m == CHOOSE i \in T : \A j \in T : j <= i IN
         At(m, _resolve_value(cs[m].val))

\* Conditions._resolve
_resolve(cs, d) == ResolveFrom(cs, d, 1)

\* str(result) of a value that is not a deferred computation.
str(result) ==
    CASE result.kind = "str" -> result.s
      [] result.kind = "markup" -> result.s
      [] result.kind = "none" -> <<"N", "o", "n", "e">>
      [] result.kind = "bool" ->
            IF result.b THEN <<"T", "r", "u", "e">> ELSE <<"F", "a", "l", "s", "e">>
      [] OTHER -> <<"<", "o", "b", "j", ">">>

\* The entity markupsafe.escape writes for one character.
EscapeChar(c) ==
    CASE c = "&" -> <<"&", "a", "m", "p", ";">>
      [] c = "<" -> <<"&", "l", "t", ";">>
      [] c = ">" -> <<"&", "g", "t", ";">>
      [] c = "'" -> <<"&", "#", "3", "9", ";">>
      [] c = "\"" -> <<"&", "#", "3", "4", ";">>
      [] OTHER -> <<c>>

RECURSIVE EscapeText(_)
EscapeText(s) ==
    IF s = <<>> THEN <<>> ELSE EscapeChar(Head(s)) \o EscapeText(Tail(s))

\* markupsafe.escape on plain text.
escape(s) == Markup(EscapeText(s))

\* processor.HasHTMLDunder: the value has an __html__ method.  Markup has one
\* (it returns the text itself); so has a node.
HasHTMLDunder(result) == result.kind \in {"markup", "node"}

\* result.__html__() of such a value.
HtmlOf(result) == IF result.kind = "markup" THEN result.s ELSE result.html

\* Variant: no case for None.
_to_markup_noNone(result) ==
    IF HasHTMLDunder(result) THEN Markup(HtmlOf(result)) ELSE escape(str(result))

\* Variant: no case for values with the hook; everything is escaped.
_to_markup_alwaysEscape(result) ==
    IF result.kind = "none" THEN Markup(<<>>) ELSE escape(str(result))

_to_markup(result) ==
    CASE result.kind = "none" -> Markup(<<>>)
      [] result.kind # "none" /\ HasHTMLDunder(result) -> Markup(HtmlOf(result))
      [] OTHER -> escape(str(result))

\* Variant: the hook catches the error and renders empty.
html_swallow(cs, d) ==
    LET r == _resolve(cs, d) IN
    IF r.out.kind = "exc"
    THEN [out |-> Markup(<<>>), log |-> r.log]
    ELSE [out |-> _to_markup(r.out), log |-> r.log]

\* Variant: the hook hands back what _resolve gave.
html_raw(cs, d) == _resolve(cs, d)

\* Conditions.__html__: an exception of _resolve leaves before _to_markup runs.
__html__(cs, d) ==
    LET r == _resolve(cs, d) IN
    IF r.out.kind = "exc" THEN r ELSE [out |-> _to_markup(r.out), log |-> r.log]

\* Variant: the default is tested for truth (default=None as "not given").
RECURSIVE CondFrom_truthyDefault(_, _, _)
CondFrom_truthyDefault(pairs, d, i) ==
    IF i <= Len(pairs)
    THEN IF pairs[i].cond
         THEN At(i, _resolve_value(pairs[i].val))
         ELSE CondFrom_truthyDefault(pairs, d, i + 1)
    ELSE IF d # _UNSET /\ d # None /\ d # False
         THEN At(0, _resolve_value(d))
         ELSE [out |-> None, log |-> <<>>]

RECURSIVE CondFrom(_, _, _)
CondFrom(pairs, d, i) ==
    IF i <= Len(pairs)
    THEN IF pairs[i].cond
         THEN At(i, _resolve_value(pairs[i].val))
         ELSE CondFrom(pairs, d, i + 1)
    ELSE IF d # _UNSET
         THEN At(0, _resolve_value(d))
         ELSE [out |-> None, log |-> <<>>]

\* Variant: the matched value is returned as it is, not resolved.
cond_unresolved(pairs, d) ==
    LET T == {i \in 1..Len(pairs) : pairs[i].cond} IN
    IF T = {}
    THEN CondFrom(pairs, d, Len(pairs) + 1)
    ELSE LET m == CHOOSE i \in T : \A j \in T : i <= j IN
         [out |-> pairs[m].val, log |-> <<>>]

\* cond(*pairs, default=d); d = _UNSET when no default is passed.
cond(pairs, d) == CondFrom(pairs, d, 1)

Init ==
    /\ cases = <<>>
    /\ default = _UNSET
    /\ call = [op |-> "init"]
    /\ lastDefault = NoCall
    /\ r_res = NoCall
    /\ r_html = NoCall
    /\ r_cond = NoCall
    /\ hookRuns = 0
    /\ nres = 0
    /\ ncalls = 0

\* Conditions.when
When ==
    /\ Len(cases) < MaxCases
    /\ \E condition \in BOOLEAN, value \in Values :
          /\ cases' = Append(cases, [cond |-> condition, val |-> value])
          /\ call' = [op |-> "when", cond |-> condition, value |-> value]
    /\ r_res' = NoCall
    /\ r_html' = NoCall
    /\ r_cond' = NoCall
    /\ hookRuns' = 0
    /\ UNCHANGED <<default, lastDefault, nres, ncalls>>

\* Variant: default() keeps a default that is already set.
Default_firstWins ==
    /\ \E value \in Values :
          /\ default' = IF default = _UNSET THEN value ELSE default
          /\ lastDefault' = value
          /\ call' = [op |-> "default", value |-> value]
    /\ r_res' = NoCall
    /\ r_html' = NoCall
    /\ r_cond' = NoCall
    /\ hookRuns' = 0
    /\ UNCHANGED <<cases, nres, ncalls>>

\* Conditions.default
Default ==
    /\ \E value \in Values :
          /\ default' = value
          /\ lastDefault' = value
          /\ call' = [op |-> "default", value |-> value]
    /\ r_res' = NoCall
    /\ r_html' = NoCall
    /\ r_cond' = NoCall
    /\ hookRuns' = 0
    /\ UNCHANGED <<cases, nres, ncalls>>

\* A call of Conditions._resolve on the instance.
Resolve ==
    /\ nres < MaxResolutions
    /\ LET r == _resolve(cases, default) IN
          /\ r_res' = r
          /\ ncalls' = ncalls + Len(r.log)
    /\ call' = [op |-> "_resolve"]
    /\ nres' = nres + 1
    /\ UNCHANGED <<cases, default, lastDefault, r_html, r_cond, hookRuns>>

\* Variant: the hook keeps its first result and hands it out again.
Html_cached ==
    /\ nres < MaxResolutions
    /\ LET r == __html__(cases, default) IN
          IF r_html = NoCall
          THEN r_html' = r /\ ncalls' = ncalls + Len(r.log)
          ELSE UNCHANGED <<r_html, ncalls>>
    /\ call' = [op |-> "__html__"]
    /\ hookRuns' = hookRuns + 1
    /\ nres' = nres + 1
    /\ UNCHANGED <<cases, default, lastDefault, r_res, r_cond>>

\* A call of the rendering hook Conditions.__html__ on the instance.
Html ==
    /\ nres < MaxResolutions
    /\ LET r == __html__(cases, default) IN
          /\ r_html' = r
          /\ ncalls' = ncalls + Len(r.log)
    /\ call' = [op |-> "__html__"]
    /\ hookRuns' = hookRuns + 1
    /\ nres' = nres + 1
    /\ UNCHANGED <<cases, default, lastDefault, r_res, r_cond>>

\* A call of cond with the pairs and the default the builder was given, in
\* the same order; no default argument when the builder has none.
Cond ==
    /\ nres < MaxResolutions
    /\ LET r == cond(cases, default) IN
          /\ r_cond' = r
          /\ ncalls' = ncalls + Len(r.log)
    /\ call' = [op |-> "cond"]
    /\ nres' = nres + 1
    /\ UNCHANGED <<cases, default, lastDefault, r_res, r_html, hookRuns>>

Next == When \/ Default \/ Resolve \/ Html \/ Cond

Spec == Init /\ [][Next]_vars

\* ------------------------------------------------------------ properties
\* The branches whose condition is truthy, and the earliest of them.
Truthy == {i \in 1..Len(cases) : cases[i].cond}
FirstTruthy == CHOOSE i \in Truthy : \A j \in Truthy : i <= j

\* Whether anything is selected, where, and the value standing there.
HasSelection == Truthy # {} \/ default # _UNSET
SelSlot == IF Truthy # {} THEN FirstTruthy ELSE 0
SelVal == IF Truthy # {} THEN cases[FirstTruthy].val ELSE default

\* The resolved value of v: v itself, or the result of invoking it.
ResolvedOf(v) == IF callable(v) THEN Invoke(v) ELSE v
\* What a resolution of the instance is to give.
Expected == IF HasSelection THEN ResolvedOf(SelVal) ELSE None
\* The invocations a resolution of the instance is to make.
ExpectedLog ==
    IF HasSelection /\ callable(SelVal)
    THEN <<[slot |-> SelSlot, id |-> SelVal.id]>>
    ELSE <<>>

\* The resolutions run on the present branches and default.
Runs == {r_res, r_html, r_cond} \ {NoCall}

\* escape(Hot), written out.
HotEscaped ==
    <<"&", "l", "t", ";", "&", "a", "m", "p", ";", "&", "g", "t", ";",
      "&", "#", "3", "4", ";", "&", "#", "3", "9", ";", "b">>

\* C1: when at least one branch is truthy, _resolve yields the resolved value
\* of the earliest truthy branch, whatever later branches and the default are;
\* and the hook invokes nothing that stands elsewhere.
C1_FirstTruthyWins ==
    Truthy # {} =>
        /\ r_res # NoCall => r_res.out = ResolvedOf(cases[FirstTruthy].val)
        /\ r_html # NoCall => \A k \in 1..Len(r_html.log) : r_html.log[k].slot = FirstTruthy

C1_Witness ==
    /\ r_res # NoCall
    /\ Len(cases) = 2
    /\ Truthy = {1, 2}
    /\ cases[1].val # cases[2].val
    /\ callable(cases[1].val)
    /\ default # _UNSET
    /\ r_res.out = Str(Hot)

\* C2: in one resolution (hook, _resolve or cond) the deferred computation of
\* the selected branch or default is invoked exactly once and no other
\* computation is invoked at all.
C2_OnlySelectedInvoked == \A r \in Runs : r.log = ExpectedLog

C2_Witness ==
    /\ r_html # NoCall
    /\ r_cond # NoCall
    /\ Len(cases) = 2
    /\ ~cases[1].cond /\ callable(cases[1].val)
    /\ cases[2].cond /\ callable(cases[2].val)
    /\ callable(default)
    /\ r_html.log = <<[slot |-> 2, id |-> cases[2].val.id]>>
    /\ r_cond.log = r_html.log

\* C3: with no truthy branch and a default supplied, cond and _resolve give
\* the default's resolved value exactly, None and False included.
C3_DefaultExact ==
    (Truthy = {} /\ default # _UNSET) =>
        \A r \in {r_res, r_cond} \ {NoCall} : r.out = ResolvedOf(default)

C3_Witness ==
    /\ r_cond # NoCall
    /\ Len(cases) > 0
    /\ Truthy = {}
    /\ cases[1].val = Str(Hot)
    /\ default = False
    /\ r_cond.out = False

\* C4: with no truthy branch (or no branch) and no default ever supplied,
\* cond and _resolve give None and the hook gives the empty trusted string.
C4_NoMatchNoDefault ==
    (Truthy = {} /\ default = _UNSET) =>
        /\ r_cond # NoCall => r_cond.out = None
        /\ r_res # NoCall => r_res.out = None
        /\ r_html # NoCall => r_html.out = Markup(<<>>)

C4_Witness ==
    /\ Len(cases) > 0
    /\ Truthy = {}
    /\ default = _UNSET
    /\ r_cond # NoCall
    /\ r_html # NoCall
    /\ r_html.out = Markup(<<>>)

\* C5: the hook's text follows the escaping policy for the selected value:
\* plain data is stringified and its metacharacters replaced by entities,
\* trusted text and hook-bearing values are emitted verbatim, and converting
\* the hook's output again changes nothing.
C5_EscapingPolicy ==
    (r_html # NoCall /\ Expected.kind # "exc") =>
        /\ r_html.out.kind = "markup"
        /\ Expected.kind = "str" =>
              /\ \A k \in 1..Len(r_html.out.s) : r_html.out.s[k] \notin {"<", ">", "\"", "'"}
              /\ Expected.s = Hot => r_html.out.s = HotEscaped
        /\ Expected.kind = "bool" => r_html.out.s = <<"F", "a", "l", "s", "e">>
        /\ Expected.kind = "markup" => r_html.out.s = Expected.s
        /\ Expected.kind = "node" => r_html.out.s = Expected.html
        /\ _to_markup(r_html.out) = r_html.out

C5_Witness ==
    /\ r_html # NoCall
    /\ Truthy = {}
    /\ Len(cases) = 2
    /\ cases[1].val = Markup(Hot)
    /\ default = Str(Hot)
    /\ r_html.out = Markup(HotEscaped)

\* C6: cond on the pairs and default the builder was given returns what
\* _resolve returns on the builder and invokes the same computations.
C6_CondEquivResolve == (r_res # NoCall /\ r_cond # NoCall) => r_cond = r_res

C6_Witness ==
    /\ r_res # NoCall
    /\ r_cond # NoCall
    /\ Len(cases) = 2
    /\ Truthy = {2}
    /\ callable(cases[2].val)
    /\ default # _UNSET
    /\ Len(r_cond.log) = 1

\* C7: once default() was called, the instance has a default and it is the
\* argument of the most recent default() call, through every later when()
\* and resolution; a resolution with no truthy branch yields its resolved
\* value.
C7_DefaultLastWins ==
    lastDefault # NoCall =>
        /\ default # _UNSET
        /\ default = lastDefault
        /\ Truthy = {} =>
              /\ r_res # NoCall => r_res.out = ResolvedOf(lastDefault)
              /\ r_cond # NoCall => r_cond.out = ResolvedOf(lastDefault)

C7_Witness ==
    /\ lastDefault = None
    /\ call.op = "_resolve"
    /\ nres >= 2
    /\ Len(cases) = 2
    /\ Truthy = {}
    /\ r_res # NoCall
    /\ r_res.out = None

\* C8: a deferred computation that raises hands its error to the caller of
\* the resolution: the outcome is that error, the computation ran once,
\* nothing else was tried, and the resolution leaves branches and default as
\* they were.
C8_ErrorPropagates ==
    /\ [](\A r \in Runs :
             /\ (HasSelection /\ callable(SelVal) /\ SelVal.raises) =>
                   /\ r.out = Raised(SelVal.id)
                   /\ r.log = <<[slot |-> SelSlot, id |-> SelVal.id]>>
             /\ r.out.kind = "exc" =>
                   (HasSelection /\ callable(SelVal) /\ SelVal.raises))
    /\ [][nres' # nres => (cases' = cases /\ default' = default)]_vars

C8_Witness ==
    /\ r_html # NoCall
    /\ r_cond # NoCall
    /\ Len(cases) = 2
    /\ Truthy = {1, 2}
    /\ callable(cases[1].val) /\ cases[1].val.raises
    /\ ~callable(cases[2].val)
    /\ default # _UNSET
    /\ r_html.out = Raised(cases[1].val.id)
    /\ r_cond.out = r_html.out

\* C9: the hook leaves branches and default unchanged; called again with no
\* when/default in between it gives the same result and invokes the selected
\* deferred computation once more.
C9_ResolutionIdempotent ==
    [][(call'.op = "__html__" /\ nres' = nres + 1) =>
          /\ cases' = cases
          /\ default' = default
          /\ r_html # NoCall => r_html' = r_html
          /\ ncalls' = ncalls + (IF HasSelection /\ callable(SelVal) THEN 1 ELSE 0)]_vars

C9_Witness ==
    /\ hookRuns = 2
    /\ ncalls = 2
    /\ r_html # NoCall
    /\ Len(cases) = 2
    /\ Len(r_html.log) = 1

\* C10: the hook itself converts the resolved value of the selected branch
\* or default to trusted text: what it returns is _to_markup of that value.
C10_HookConverts ==
    (r_html # NoCall /\ Expected.kind # "exc") =>
        /\ r_html.out.kind = "markup"
        /\ r_html.out = _to_markup(Expected)
        /\ r_res # NoCall => r_html.out = _to_markup(r_res.out)

C10_Witness ==
    /\ r_html # NoCall
    /\ r_res # NoCall
    /\ Truthy = {1}
    /\ cases[1].val = Thunk(1, FALSE, Str(Hot))
    /\ r_res.out = Str(Hot)
    /\ r_html.out = Markup(HotEscaped)

\* C10 as stated, for a selected value that resolves to plain text: the hook
\* returns the resolved value as it is, unconverted.
C10_HookReturnsRaw ==
    (r_html # NoCall /\ Expected.kind = "str") => r_html.out = Expected
====
